---- MODULE Spec2Model ----
(***************************************************************************)
(* Model of the DICOM receiver of rust/noctis_dicom_receiver/src/main.rs:  *)
(* startup (main), the per-association handler (handle_p_data), the        *)
(* persistence step (persist_dataset) and the forwarder                    *)
(* (FastApiForwarder::send), over a small filesystem and a log of the      *)
(* outbound requests.                                                      *)
(*                                                                         *)
(* trim, join and parse are computed character by character.  A path is a  *)
(* sequence of components (each a string); the filesystem is keyed by      *)
(* resolved paths.                                                         *)
(***************************************************************************)
EXTENDS Integers, Sequences, FiniteSets, TLC

(* ------------------------------ bounds --------------------------------- *)

\* Fragments delivered to one association that runs alone.
MaxFragments == 3

\* Fragments delivered, over both, to two associations that run together.
MaxShared == 2

\* Fragments delivered to the association whose task is scheduled fairly.
MaxFair == 2

(* --------------------------- program constants ------------------------- *)

\* Largest value of the type of `port` (u16).
U16Max == 65535

(* ------------------------------ inputs --------------------------------- *)

\* The associations (one task per accepted connection).
Conns == {"c1", "c2"}

\* data_fragment values: non-empty byte strings.
Payloads == {<<7>>, <<8, 9>>}

\* Bytes carried by a command (control) fragment.
CommandBytes == <<1>>

\* PDataValue values the transport can hand to handle_p_data.
Fragments ==
    {[pdv_type |-> "Data", data_fragment |-> d] : d \in Payloads}
        \cup {[pdv_type |-> "Command", data_fragment |-> CommandBytes]}

\* Results of assoc.caller_ae_title(): Ok(title) or Err.
\* AE titles are up to 16 characters of the default repertoire without
\* backslash and control characters, padded with spaces; "/" and "." are
\* legal title characters.
NoTitle == [ok |-> FALSE, val |-> ""]

\* Results of assoc.peer_addr(): Ok(SocketAddr) or Err.
NoAddr == [ok |-> FALSE, ip |-> "", port |-> 0]

\* The peers that open associations: what caller_ae_title() and
\* peer_addr() give for each.
Callers ==
    {[title |-> [ok |-> TRUE, val |-> " A "],
      addr |-> [ok |-> TRUE, ip |-> "10.0.0.1", port |-> 104]],
     [title |-> [ok |-> TRUE, val |-> ".."],
      addr |-> [ok |-> TRUE, ip |-> "10.0.0.2", port |-> 104]],
     [title |-> NoTitle, addr |-> NoAddr]}

\* The callers whose title names a directory of its own.
NamedCallers == {caller \in Callers : caller.title.val # ".."}

\* Values of the NOCTIS_DICOM_PORT environment variable (NoVar: unset).
NoVar == [set |-> FALSE, val |-> ""]

PortVars == {NoVar} \cup {[set |-> TRUE, val |-> v] : v \in {"104", "70000", "x", ""}}

\* Status codes the downstream endpoint may answer with.
Statuses == {200, 304, 404, 500}

(* ------------------------------ strings -------------------------------- *)

IsWhitespace(ch) == ch = " "

Last(s) == SubSeq(s, Len(s), Len(s))

RECURSIVE TrimStart(_)
TrimStart(s) ==
    IF s # "" /\ IsWhitespace(Head(s)) THEN TrimStart(Tail(s)) ELSE s

RECURSIVE TrimEnd(_)
TrimEnd(s) ==
    IF s # "" /\ IsWhitespace(Last(s))
    THEN TrimEnd(SubSeq(s, 1, Len(s) - 1))
    ELSE s

\* str::trim
Trim(s) == TrimEnd(TrimStart(s))

DigitVal ==
    [ch \in {"0", "1", "2", "3", "4", "5", "6", "7", "8", "9"} |->
        CASE ch = "0" -> 0 [] ch = "1" -> 1 [] ch = "2" -> 2 [] ch = "3" -> 3
          [] ch = "4" -> 4 [] ch = "5" -> 5 [] ch = "6" -> 6 [] ch = "7" -> 7
          [] ch = "8" -> 8 [] ch = "9" -> 9]

RECURSIVE ParseDigits(_, _)
ParseDigits(s, acc) ==
    IF s = "" THEN [ok |-> TRUE, val |-> acc]
    ELSE IF Head(s) \notin DOMAIN DigitVal THEN [ok |-> FALSE, val |-> 0]
    ELSE LET v == acc * 10 + DigitVal[Head(s)]
         IN  IF v > U16Max THEN [ok |-> FALSE, val |-> 0]
             ELSE ParseDigits(Tail(s), v)

\* str::parse::<u16>: digits only, not empty, no overflow.
ParseU16(s) ==
    IF s = "" THEN [ok |-> FALSE, val |-> 0] ELSE ParseDigits(s, 0)

\* Mutant: a value that is not a port falls back to the default port.
PortOfOrDefault(var) ==
    IF var.set /\ ParseU16(var.val).ok THEN ParseU16(var.val) ELSE ParseU16("11112")

\* env::var("NOCTIS_DICOM_PORT").unwrap_or_else(|_| "11112".into()).parse()
PortOf(var) == ParseU16(IF var.set THEN var.val ELSE "11112")

(* ------------------------------- paths --------------------------------- *)

RECURSIVE Split(_, _)
Split(s, cur) ==
    IF s = "" THEN (IF cur = "" THEN <<>> ELSE <<cur>>)
    ELSE IF Head(s) = "/"
         THEN (IF cur = "" THEN <<>> ELSE <<cur>>) \o Split(Tail(s), "")
         ELSE Split(Tail(s), cur \o Head(s))

\* The components of a path string (empty components are dropped).
Components(s) == Split(s, "")

IsAbsolute(s) == s # "" /\ Head(s) = "/"

\* Path::join: an absolute argument replaces the base.
Join(base, s) == IF IsAbsolute(s) THEN Components(s) ELSE base \o Components(s)

RECURSIVE Walk(_, _)
Walk(p, acc) ==
    IF p = <<>> THEN acc
    ELSE IF Head(p) = ".."
         THEN Walk(Tail(p), IF acc = <<>> THEN acc ELSE SubSeq(acc, 1, Len(acc) - 1))
         ELSE IF Head(p) = "." THEN Walk(Tail(p), acc)
              ELSE Walk(Tail(p), Append(acc, Head(p)))

\* The directory entry the operating system reaches through path p.
Resolve(p) == Walk(p, <<>>)

Parent(p) == SubSeq(p, 1, Len(p) - 1)

Prefixes(p) == {SubSeq(p, 1, n) : n \in 0..Len(p)}

\* storage_root (NOCTIS_DICOM_STORAGE).
StorageRoot == <<"srv", "received">>

\* The names NamedTempFile can draw: ".tmp" plus six random characters.
TempNames == {".tmp" \o suffix : suffix \in {"aB3xQ9", "Zk81mT"}}

(* ------------------------------- state --------------------------------- *)

VARIABLES
    proc,         \* main: "starting", "running" or "failed" (exit with an error)
    dirs,         \* the directories that exist (resolved paths)
    files,        \* the regular files that exist: resolved path -> contents
    conn,         \* per association: "Negotiating", "Receiving", "Closed"
    title,        \* per association: the result of assoc.caller_ae_title()
    peer,         \* per association: the result of assoc.peer_addr()
    arrived,      \* per association: the fragments handed to handle_p_data
    pc,           \* per association: where its handle_p_data call stands
    calling_aet,  \* handle_p_data: local calling_aet
    remote_host,  \* handle_p_data: local remote_host
    study_dir,    \* persist_dataset: local study_dir
    temp,         \* persist_dataset: temp.path() while temp is alive
    file_path,    \* handle_p_data: the path persist_dataset returned
    persisted,    \* per association: the persist_dataset calls and results
    forwarded,    \* per association: the FastApiForwarder::send calls
    requests,     \* per association: the outbound requests issued
    result,       \* per association: what the last send call returned
    logged        \* per association: the last error! message

fs == <<dirs, files>>
assoc == <<conn, title, peer, arrived>>
locals == <<calling_aet, remote_host, study_dir, temp, file_path>>
history == <<persisted, forwarded, requests, result, logged>>
vars == <<proc, fs, assoc, pc, locals, history>>

NoPath == <<>>
NoString == ""

PersistFailed == "Failed to persist dataset"
ForwardFailed == "Failed to forward ingest payload"

Init ==
    /\ proc = "starting"
    /\ dirs = {<<>>}
    /\ files = <<>>
    /\ conn = [c \in Conns |-> "Negotiating"]
    /\ title = [c \in Conns |-> NoTitle]
    /\ peer = [c \in Conns |-> NoAddr]
    /\ arrived = [c \in Conns |-> <<>>]
    /\ pc = [c \in Conns |-> "idle"]
    /\ calling_aet = [c \in Conns |-> NoString]
    /\ remote_host = [c \in Conns |-> ""]
    /\ study_dir = [c \in Conns |-> NoPath]
    /\ temp = [c \in Conns |-> NoPath]
    /\ file_path = [c \in Conns |-> NoPath]
    /\ persisted = [c \in Conns |-> <<>>]
    /\ forwarded = [c \in Conns |-> <<>>]
    /\ requests = [c \in Conns |-> <<>>]
    /\ result = [c \in Conns |-> [resp |-> [delivered |-> FALSE, status |-> 0], ret |-> "none"]]
    /\ logged = [c \in Conns |-> ""]

(* ----------------------------- filesystem ------------------------------ *)

\* fs::create_dir_all(p): p and every missing ancestor become directories.
CreateDirAll(ds, p) == ds \cup Prefixes(Resolve(p))

FileExists(p) == Resolve(p) \in DOMAIN files

Contents(p) == files[Resolve(p)]

\* The file at p with contents b, created or replaced.
WithFile(fl, p, b) ==
    [q \in DOMAIN fl \cup {Resolve(p)} |-> IF q = Resolve(p) THEN b ELSE fl[q]]

\* Mutant: the file is not removed.
KeepFile(fl, p) == fl

\* fs::remove_file(p), errors ignored (Drop of NamedTempFile and TempPath).
RemoveFile(fl, p) == [q \in DOMAIN fl \ {Resolve(p)} |-> fl[q]]

(* -------------------------------- main --------------------------------- *)

\* main up to server.run: parse the port, ensure the storage root, bind.
Startup(portVar, rootOk, bindOk) ==
    /\ proc = "starting"
    /\ IF ~PortOf(portVar).ok
       THEN proc' = "failed" /\ UNCHANGED dirs
       ELSE IF ~rootOk
            THEN proc' = "failed" /\ UNCHANGED dirs
            ELSE /\ dirs' = CreateDirAll(dirs, StorageRoot)
                 /\ proc' = IF bindOk THEN "running" ELSE "failed"
    /\ UNCHANGED <<files, assoc, pc, locals, history>>

(* ----------------------------- transport ------------------------------- *)

\* An association is negotiated: handle_presentation_context only logs.
Negotiate(c, caller) ==
    /\ proc = "running"
    /\ conn[c] = "Negotiating"
    /\ conn' = [conn EXCEPT ![c] = "Receiving"]
    /\ title' = [title EXCEPT ![c] = caller.title]
    /\ peer' = [peer EXCEPT ![c] = caller.addr]
    /\ UNCHANGED <<proc, fs, arrived, pc, locals, history>>

\* The transport reports the association ended.
Close(c) ==
    /\ proc = "running"
    /\ conn[c] \in {"Negotiating", "Receiving"}
    /\ conn' = [conn EXCEPT ![c] = "Closed"]
    /\ UNCHANGED <<proc, fs, title, peer, arrived, pc, locals, history>>

RECURSIVE Total(_, _)
Total(f, S) ==
    IF S = {} THEN 0
    ELSE LET c == CHOOSE x \in S : TRUE IN Len(f[c]) + Total(f, S \ {c})

\* The fragments handed to the handler so far, over all associations.
Delivered == Total(arrived, Conns)

(* ---------------------------- handle_p_data ---------------------------- *)

\* Mutant: the early return is missing.
IsDataAlways(value) == TRUE

\* value.pdv_type != PDataValueType::Data returns early.
IsData(value) == value.pdv_type = "Data"

\* assoc.caller_ae_title().unwrap_or_else(|_| "UNKNOWN".into()).trim()
CallingAet(t) == Trim(IF t.ok THEN t.val ELSE "UNKNOWN")

\* assoc.peer_addr().map(|addr| addr.ip().to_string()).unwrap_or_else(..)
RemoteHost(a) == IF a.ok THEN a.ip ELSE "unknown"

\* Mutant: the two string fields are filled in the other order.
IngestPayloadSwapped(path, aet, host) ==
    [file_path |-> path, calling_aet |-> host, remote_host |-> aet]

\* The IngestPayload built in the Ok arm.
IngestPayload(path, aet, host) ==
    [file_path |-> path, calling_aet |-> aet, remote_host |-> host]

\* The Err of persist_dataset: the std::io::Error of the call that failed,
\* passed on by `?` as it is, with no context that names the step.
IoError == "io::Error"

Pending == [st |-> "pending", path |-> NoPath, error |-> NoString]
Failed == [st |-> "err", path |-> NoPath, error |-> IoError]
Dropped == [st |-> "dropped", path |-> NoPath, error |-> NoString]
Returned(p) == [st |-> "ok", path |-> p, error |-> NoString]

\* The last persist_dataset call of c gets its result.
SetResult(c, r) ==
    [persisted EXCEPT ![c][Len(persisted[c])].result = r]

ClearLocals(c) ==
    /\ calling_aet' = [calling_aet EXCEPT ![c] = NoString]
    /\ remote_host' = [remote_host EXCEPT ![c] = ""]
    /\ study_dir' = [study_dir EXCEPT ![c] = NoPath]
    /\ temp' = [temp EXCEPT ![c] = NoPath]
    /\ file_path' = [file_path EXCEPT ![c] = NoPath]

\* The transport hands the next fragment of c to handle_p_data; a data
\* fragment enters persist_dataset, which computes study_dir and starts
\* create_dir_all.
Deliver(c, value, bound) ==
    /\ proc = "running"
    /\ conn[c] = "Receiving"
    /\ pc[c] = "idle"
    /\ Delivered < bound
    /\ arrived' = [arrived EXCEPT ![c] = Append(@, value)]
    /\ IF ~IsData(value)
       THEN UNCHANGED <<pc, locals, history>>
       ELSE LET aet == CallingAet(title[c])
            IN  /\ calling_aet' = [calling_aet EXCEPT ![c] = aet]
                /\ remote_host' = [remote_host EXCEPT ![c] = RemoteHost(peer[c])]
                /\ study_dir' = [study_dir EXCEPT ![c] = Join(StorageRoot, aet)]
                /\ persisted' = [persisted EXCEPT ![c] = Append(@,
                       [frag |-> Len(arrived[c]) + 1, sender |-> aet,
                        data |-> value.data_fragment, result |-> Pending])]
                /\ pc' = [pc EXCEPT ![c] = "create_dir_all"]
                /\ UNCHANGED <<temp, file_path, forwarded, requests, result, logged>>
    /\ UNCHANGED <<proc, fs, conn, title, peer>>

\* Mutant: the Ok arm is taken whatever persist_dataset returned.
AfterPersistAlwaysSends(ok) == "send"

\* Mutant: an Err of persist_dataset is propagated out of the handler,
\* which ends the task of the association.
AfterPersistPropagates(ok) == IF ok THEN "send" ELSE "aborted"

\* The match on the result of persist_dataset: where the handler goes next.
AfterPersist(ok) == IF ok THEN "send" ELSE "idle"

\* persist_dataset returned Err: the Err arm logs and the handler returns.
PersistErr(c) ==
    /\ persisted' = SetResult(c, Failed)
    /\ logged' = [logged EXCEPT ![c] = PersistFailed]
    /\ pc' = [pc EXCEPT ![c] = AfterPersist(FALSE)]
    /\ ClearLocals(c)
    /\ UNCHANGED <<forwarded, requests, result>>

(* --------------------------- persist_dataset --------------------------- *)

\* The call of persist_dataset that c is in (or made last).
Call(c) == persisted[c][Len(persisted[c])]

\* Mutant: fs::create_dir in place of create_dir_all, which is an error
\* (AlreadyExists) when the directory is there.
CreateDirOnce(ds, fl, p) ==
    /\ Resolve(p) \notin ds
    /\ Prefixes(Resolve(p)) \cap DOMAIN fl = {}

\* fs::create_dir_all(p) can succeed: a directory that is already there is
\* not an error, only a regular file in the place of p or of an ancestor is.
CanCreateDirAll(ds, fl, p) == Prefixes(Resolve(p)) \cap DOMAIN fl = {}

\* fs::create_dir_all(&study_dir).await? ends.
CreateDir(c, ok) ==
    /\ pc[c] = "create_dir_all"
    /\ IF ok
       THEN /\ CanCreateDirAll(dirs, files, study_dir[c])
            /\ dirs' = CreateDirAll(dirs, study_dir[c])
            /\ pc' = [pc EXCEPT ![c] = "new_in"]
            /\ UNCHANGED <<files, locals, history>>
       ELSE PersistErr(c) /\ UNCHANGED fs
    /\ UNCHANGED <<proc, assoc>>

\* NamedTempFile::new_in(&study_dir)? creates an empty file under a name
\* that is not in use (O_EXCL), or fails.
NewIn(c, name, ok) ==
    /\ pc[c] = "new_in"
    /\ IF ok
       THEN LET p == study_dir[c] \o <<name>>
            IN  /\ Resolve(study_dir[c]) \in dirs
                /\ ~FileExists(p)
                /\ files' = WithFile(files, p, <<>>)
                /\ temp' = [temp EXCEPT ![c] = p]
                /\ pc' = [pc EXCEPT ![c] = "write"]
                /\ UNCHANGED <<dirs, calling_aet, remote_host, study_dir,
                               file_path, history>>
       ELSE PersistErr(c) /\ UNCHANGED fs
    /\ UNCHANGED <<proc, assoc>>

\* The bytes of the fragment that tokio::fs::write has still to write.
Remaining(c) == Len(Call(c).data) - Len(Contents(temp[c]))

\* tokio::fs::write(temp.path(), &pdata.data_fragment) writes its next k
\* bytes into the file at temp.path().
Write(c) ==
    /\ pc[c] = "write"
    /\ \E k \in 1..Remaining(c) :
           LET old == Contents(temp[c])
               new == old \o SubSeq(Call(c).data, Len(old) + 1, Len(old) + k)
           IN  files' = WithFile(files, temp[c], new)
    /\ UNCHANGED <<proc, dirs, assoc, pc, locals, history>>

\* The write fails before its last byte: `?` returns Err and drops temp,
\* which removes the file.
WriteErr(c) ==
    /\ pc[c] = "write"
    /\ Remaining(c) > 0
    /\ files' = RemoveFile(files, temp[c])
    /\ PersistErr(c)
    /\ UNCHANGED <<proc, dirs, assoc>>

\* The files after `temp.into_temp_path().to_path_buf()` for the file at p:
\* to_path_buf copies the path out of the TempPath, which is a temporary of
\* the expression and is dropped at its end; dropping a TempPath removes
\* the file.
IntoPathBuf(fl, p) == RemoveFile(fl, p)

\* The write is complete: Ok(temp.into_temp_path().to_path_buf()).
PersistOk(c) ==
    /\ pc[c] = "write"
    /\ Remaining(c) = 0
    /\ files' = IntoPathBuf(files, temp[c])
    /\ file_path' = [file_path EXCEPT ![c] = temp[c]]
    /\ temp' = [temp EXCEPT ![c] = NoPath]
    /\ persisted' = SetResult(c, Returned(temp[c]))
    /\ pc' = [pc EXCEPT ![c] = AfterPersist(TRUE)]
    /\ UNCHANGED <<proc, dirs, assoc, calling_aet, remote_host, study_dir,
                   forwarded, requests, result, logged>>

(* ------------------------ FastApiForwarder::send ----------------------- *)

\* What the endpoint does with a request: no response (the connection
\* fails), or a response with a status code.
NoResponse == [delivered |-> FALSE, status |-> 0]

Responses ==
    {NoResponse} \cup {[delivered |-> TRUE, status |-> s] : s \in Statuses}

NoResult == [resp |-> NoResponse, ret |-> "none"]

\* StatusCode::is_client_error() || StatusCode::is_server_error()
IsErrorStatus(s) == (400 <= s /\ s <= 499) \/ (500 <= s /\ s <= 599)

\* .send().await.context(..)?.error_for_status().context(..)?; Ok(())
SendResult(r) ==
    IF ~r.delivered THEN "Failed to send ingest payload"
    ELSE IF IsErrorStatus(r.status) THEN "Gateway rejected ingest payload"
    ELSE "Ok"

\* Mutant: the forwarder sits behind a lock that a handler holds from the
\* call of send until send returns.
ForwarderLocked(c) == \E d \in Conns \ {c} : pc[d] \in {"post", "await"}

\* The handler of c has to wait for the forwarder: never, since the handler
\* reaches self.forwarder through &self and send takes &self, with no lock
\* around the client.
ForwarderBusy(c) == FALSE

\* The Ok arm builds the payload and calls self.forwarder.send(&payload).
Send(c) ==
    /\ pc[c] = "send"
    /\ ~ForwarderBusy(c)
    /\ forwarded' = [forwarded EXCEPT ![c] = Append(@,
           [frag |-> Call(c).frag,
            body |-> IngestPayload(file_path[c], calling_aet[c], remote_host[c]),
            done |-> FALSE])]
    /\ pc' = [pc EXCEPT ![c] = "post"]
    /\ UNCHANGED <<proc, fs, assoc, locals, persisted, requests, result, logged>>

\* The send call that c is in (or made last).
Sending(c) == forwarded[c][Len(forwarded[c])]

\* Mutant: the request is handed to a task of its own and send returns at
\* once, without the response.
AfterPostDetached == "idle"

\* `.send().await`: the handler is suspended until the request has ended.
AfterPost == "await"

\* self.client.post(&self.endpoint).json(payload).send(): the request of
\* the current send call goes out.
Post(c) ==
    /\ pc[c] = "post"
    /\ requests' = [requests EXCEPT ![c] = Append(@,
           [frag |-> Sending(c).frag, body |-> Sending(c).body])]
    /\ pc' = [pc EXCEPT ![c] = AfterPost]
    /\ UNCHANGED <<proc, fs, assoc, locals, persisted, forwarded, result, logged>>

\* The request ends with r, and send returns.
Respond(c, r) ==
    /\ pc[c] = "await"
    /\ result' = [result EXCEPT ![c] = [resp |-> r, ret |-> SendResult(r)]]
    /\ forwarded' = [forwarded EXCEPT ![c][Len(forwarded[c])].done = TRUE]
    /\ pc' = [pc EXCEPT ![c] = "sent"]
    /\ UNCHANGED <<proc, fs, assoc, locals, persisted, requests, logged>>

\* Mutant: a failed request is sent again.
AfterSendRetries(ret) == IF ret = "Ok" THEN "idle" ELSE "post"

\* Where the handler goes after send returned ret.
AfterSend(ret) == "idle"

\* `if let Err(err) = ..send(..).await { error!(..) }`, and the handler
\* returns.
Return(c) ==
    /\ pc[c] = "sent"
    /\ logged' = [logged EXCEPT ![c] =
           IF result[c].ret = "Ok" THEN @ ELSE ForwardFailed]
    /\ pc' = [pc EXCEPT ![c] = AfterSend(result[c].ret)]
    /\ result' = [result EXCEPT ![c] = NoResult]
    /\ ClearLocals(c)
    /\ UNCHANGED <<proc, fs, assoc, persisted, forwarded, requests>>

(* ----------------------------- cancellation ---------------------------- *)

\* The places where handle_p_data is suspended in an .await.
Suspended == {"create_dir_all", "write", "await"}

\* The task of a closed association is dropped while its handler is
\* suspended: the locals are dropped, and dropping temp removes its file.
Abandon(c) ==
    /\ conn[c] = "Closed"
    /\ pc[c] \in Suspended
    /\ files' = IF pc[c] = "write" THEN RemoveFile(files, temp[c]) ELSE files
    /\ persisted' = IF pc[c] = "await" THEN persisted ELSE SetResult(c, Dropped)
    /\ pc' = [pc EXCEPT ![c] = "idle"]
    /\ ClearLocals(c)
    /\ UNCHANGED <<proc, dirs, assoc, forwarded, requests, result, logged>>

(* ---------------------------- specification ---------------------------- *)

\* The steps of the association c and of its handler.
Handle(c, callers, bound) ==
    \/ \E caller \in callers : Negotiate(c, caller)
    \/ \E value \in Fragments : Deliver(c, value, bound)
    \/ \E ok \in BOOLEAN : CreateDir(c, ok)
    \/ \E name \in TempNames, ok \in BOOLEAN : NewIn(c, name, ok)
    \/ Write(c)
    \/ WriteErr(c)
    \/ PersistOk(c)
    \/ Send(c)
    \/ Post(c)
    \/ \E r \in Responses : Respond(c, r)
    \/ Return(c)

Start ==
    \E v \in PortVars, rootOk \in BOOLEAN, bindOk \in BOOLEAN :
        Startup(v, rootOk, bindOk)

\* One association, from its negotiation to its end.
Next ==
    \/ Start
    \/ Handle("c1", Callers, MaxFragments)
    \/ Close("c1")
    \/ Abandon("c1")

Spec == Init /\ [][Next]_vars

\* One association whose task, when it is not suspended in an .await, runs
\* on: between the return of persist_dataset and the request there is no
\* suspension point.
NextFair ==
    \/ Start
    \/ Handle("c1", Callers, MaxFair)
    \/ Close("c1")
    \/ Abandon("c1")

FairSpec ==
    /\ Init /\ [][NextFair]_vars
    /\ WF_vars(Send("c1")) /\ WF_vars(Post("c1"))

\* Two associations that stay open, their tasks interleaved step by step.
NextShared ==
    \/ Start
    \/ \E c \in Conns : Handle(c, NamedCallers, MaxShared)

Shared == Init /\ [][NextShared]_vars

(* ------------------------------- claims -------------------------------- *)

\* The positions of the data (payload) fragments among seq[i..], in order.
RECURSIVE Positions(_, _)
Positions(seq, i) ==
    IF i > Len(seq) THEN <<>>
    ELSE (IF seq[i].pdv_type = "Data" THEN <<i>> ELSE <<>>) \o Positions(seq, i + 1)

\* The fragment positions a log is about, in the order of the log.
Frags(log) == [j \in 1..Len(log) |-> log[j].frag]

\* The entries of log[i..] whose persist_dataset call returned Ok.
RECURSIVE Succeeded(_, _)
Succeeded(log, i) ==
    IF i > Len(log) THEN <<>>
    ELSE (IF log[i].result.st = "ok" THEN <<log[i]>> ELSE <<>>) \o Succeeded(log, i + 1)

ButLast(seq) == SubSeq(seq, 1, Len(seq) - 1)

\* The fragment at position i of c was persisted successfully.
PersistedOk(c, i) ==
    \E k \in 1..Len(persisted[c]) :
        persisted[c][k].frag = i /\ persisted[c][k].result.st = "ok"

\* An outbound request was issued for the fragment at position i of c.
Requested(c, i) == \E j \in 1..Len(requests[c]) : requests[c][j].frag = i

\* C1: whenever persist_dataset has just returned Ok(p), a file exists at p
\* and holds exactly the bytes of the fragment.
PersistRoundTrip ==
    \A c \in Conns :
        pc[c] = "send" =>
            /\ FileExists(file_path[c])
            /\ Contents(file_path[c]) = Call(c).data

\* C2: in every state, each path that a persist_dataset call has returned
\* still names a file with the bytes of that call's fragment.
PersistedImmutable ==
    \A c \in Conns : \A i \in 1..Len(persisted[c]) :
        LET call == persisted[c][i]
        IN  call.result.st = "ok" =>
                /\ Resolve(call.result.path) \in DOMAIN files
                /\ files[Resolve(call.result.path)] = call.data

\* C3: while persist_dataset is writing, a file that is visible at the path
\* the call is going to return holds the complete fragment.
NoPartialFile ==
    \A c \in Conns :
        (pc[c] = "write" /\ FileExists(temp[c])) =>
            Contents(temp[c]) = Call(c).data

\* C4: send is called, and a request is issued, only for a fragment whose
\* persist_dataset call has returned Ok; for a fragment whose call failed
\* there is neither.
ForwardOnlyAfterPersist ==
    \A c \in Conns :
        /\ pc[c] \in {"send", "post", "await", "sent"} =>
               Len(persisted[c]) > 0 /\ Call(c).result.st = "ok"
        /\ \A j \in 1..Len(forwarded[c]) : PersistedOk(c, forwarded[c][j].frag)
        /\ \A j \in 1..Len(requests[c]) : PersistedOk(c, requests[c][j].frag)

ForwardOnlyAfterPersistWitness ==
    /\ Len(persisted["c1"]) = 2
    /\ persisted["c1"][1].result.st = "err"
    /\ persisted["c1"][2].result.st = "ok"
    /\ Frags(requests["c1"]) = <<persisted["c1"][2].frag>>

\* The persist_dataset calls of c are the data fragments of c, in arrival
\* order and with their bytes; the send calls are those of them whose
\* persist_dataset call returned Ok, in the same order; the requests are
\* the send calls.
InArrivalOrder(c) ==
    /\ Frags(persisted[c]) = Positions(arrived[c], 1)
    /\ \A j \in 1..Len(persisted[c]) :
           persisted[c][j].data = arrived[c][persisted[c][j].frag].data_fragment
    /\ Frags(forwarded[c]) =
           LET ok == Frags(Succeeded(persisted[c], 1))
           IN  IF pc[c] = "send" THEN ButLast(ok) ELSE ok
    /\ Frags(requests[c]) =
           IF pc[c] = "post" THEN ButLast(Frags(forwarded[c])) ELSE Frags(forwarded[c])

\* A step that hands a command fragment to the handler changes nothing
\* but the record of the fragments handed over.
CommandIgnored ==
    \A c \in Conns :
        (/\ Len(arrived'[c]) = Len(arrived[c]) + 1
         /\ arrived'[c][Len(arrived'[c])].pdv_type # "Data")
            => UNCHANGED <<proc, fs, pc, locals, history>>

\* C5: per association, persist_dataset is called for exactly the data
\* fragments, in arrival order, send for those of them that were persisted,
\* in the same order, and a command fragment causes no call and no change
\* of the filesystem or of the outbound requests.
FragmentsInOrder ==
    /\ [](\A c \in Conns : InArrivalOrder(c))
    /\ [][CommandIgnored]_vars

FragmentsInOrderWitness ==
    /\ Len(arrived["c1"]) = 3
    /\ arrived["c1"][1].pdv_type = "Data"
    /\ arrived["c1"][2].pdv_type = "Command"
    /\ arrived["c1"][3].pdv_type = "Data"
    /\ Frags(requests["c1"]) = <<1, 3>>
    /\ pc["c1"] = "idle"

\* The step in which the persist_dataset call of c ends with Err.
PersistFails(c) ==
    /\ Len(persisted[c]) > 0
    /\ Len(persisted'[c]) = Len(persisted[c])
    /\ persisted[c][Len(persisted[c])].result.st = "pending"
    /\ persisted'[c][Len(persisted[c])].result.st = "err"

\* The step in which the handler of c leaves a send call that returned Err.
ForwardFails(c) == pc[c] = "sent" /\ result[c].ret # "Ok" /\ pc'[c] # "sent"

\* After the step, the handler of c has returned and waits for a fragment.
HandlerReturned(c) ==
    /\ pc'[c] = "idle"
    /\ calling_aet'[c] = NoString /\ remote_host'[c] = ""
    /\ study_dir'[c] = NoPath /\ temp'[c] = NoPath /\ file_path'[c] = NoPath

\* C6: the step in which persist_dataset or send fails for a fragment logs
\* the failure and returns from the handler; it changes neither the state
\* of the association nor that of the process, so the next fragment is
\* handled like the first.
FailureIsLocal ==
    [][\A c \in Conns :
          /\ PersistFails(c) =>
                 logged'[c] = PersistFailed /\ HandlerReturned(c)
                     /\ conn' = conn /\ proc' = proc
          /\ ForwardFails(c) =>
                 logged'[c] = ForwardFailed /\ HandlerReturned(c)
                     /\ conn' = conn /\ proc' = proc]_vars

FailureIsLocalWitness ==
    /\ conn["c1"] = "Receiving"
    /\ Len(persisted["c1"]) = 3
    /\ persisted["c1"][1].result.st = "err"
    /\ persisted["c1"][2].result.st = "ok"
    /\ logged["c1"] = ForwardFailed
    /\ pc["c1"] = "write"

\* No fragment has two persist_dataset calls or two outbound requests.
NoRetry ==
    \A c \in Conns :
        /\ \A j, k \in 1..Len(requests[c]) :
               requests[c][j].frag = requests[c][k].frag => j = k
        /\ \A j, k \in 1..Len(persisted[c]) :
               persisted[c][j].frag = persisted[c][k].frag => j = k

\* C7: a persisted fragment has at most one outbound request, whatever the
\* request's outcome, and (unless the association is closed first) it
\* eventually has one; no fragment is persisted twice.
ExactlyOneRequest ==
    /\ []NoRetry
    /\ \A c \in Conns : \A i \in 1..MaxFair :
           PersistedOk(c, i) ~> (Requested(c, i) \/ conn[c] = "Closed")

ExactlyOneRequestWitness ==
    /\ Len(requests["c1"]) = 1
    /\ PersistedOk("c1", 1)
    /\ logged["c1"] = ForwardFailed
    /\ Len(arrived["c1"]) = 2
    /\ pc["c1"] = "idle"

IsSuccessStatus(s) == 200 <= s /\ s <= 299

\* C8: when send returns, exactly one request went out for the call; it
\* returns Ok exactly when a response with a status in the success range
\* came back, the rejection error on every other status and the transport
\* error when no response came back.
ForwardResult ==
    \A c \in Conns :
        pc[c] = "sent" =>
            LET r == result[c].resp
            IN  /\ Len(requests[c]) = Len(forwarded[c])
                /\ result[c].ret = "Ok" <=> (r.delivered /\ IsSuccessStatus(r.status))
                /\ (r.delivered /\ ~IsSuccessStatus(r.status)) =>
                       result[c].ret = "Gateway rejected ingest payload"
                /\ ~r.delivered => result[c].ret = "Failed to send ingest payload"

\* C9: the body of every outbound request has exactly the fields file_path,
\* calling_aet and remote_host: the path persist_dataset returned for the
\* request's fragment, the trimmed calling title (or UNKNOWN) and the peer
\* address (or unknown) of the association the fragment arrived on.
RequestBodies ==
    \A c \in Conns : \A j \in 1..Len(requests[c]) :
        LET body == requests[c][j].body
        IN  /\ DOMAIN body = {"file_path", "calling_aet", "remote_host"}
            /\ body.calling_aet = Trim(IF title[c].ok THEN title[c].val ELSE "UNKNOWN")
            /\ body.remote_host = (IF peer[c].ok THEN peer[c].ip ELSE "unknown")
            /\ \E k \in 1..Len(persisted[c]) :
                   /\ persisted[c][k].frag = requests[c][j].frag
                   /\ persisted[c][k].result = Returned(body.file_path)
                   /\ persisted[c][k].sender = body.calling_aet

RequestBodiesWitness ==
    /\ pc["c1"] = "await" /\ pc["c2"] = "await"
    /\ requests["c1"][1].body.calling_aet = "A"
    /\ requests["c1"][1].body.remote_host = "10.0.0.1"
    /\ requests["c2"][1].body.calling_aet = "UNKNOWN"
    /\ requests["c2"][1].body.remote_host = "unknown"

\* C10: every path persist_dataset returns is a direct child of a directory
\* that is named by the sender identifier and is a direct child of the
\* storage root.
PathShape ==
    \A c \in Conns : \A i \in 1..Len(persisted[c]) :
        LET call == persisted[c][i]
            dir == Resolve(Parent(call.result.path))
        IN  call.result.st = "ok" =>
                /\ Len(call.result.path) = Len(StorageRoot) + 2
                /\ dir = Append(StorageRoot, call.sender)

\* C11: two persist_dataset calls for distinct sender identifiers that run
\* concurrently each produce their own file, in their own sender's directory,
\* holding that call's input bytes: once both have returned Ok, the two
\* returned paths differ, lie in different directories, and each names a file
\* whose contents are the bytes of its own call.
ConcurrentPersist ==
    \A c \in Conns : \A d \in Conns \ {c} :
        (/\ pc[c] = "send" /\ pc[d] = "send"
         /\ calling_aet[c] # calling_aet[d])
        => /\ file_path[c] # file_path[d]
           /\ Resolve(Parent(file_path[c])) = Append(StorageRoot, calling_aet[c])
           /\ Resolve(Parent(file_path[d])) = Append(StorageRoot, calling_aet[d])
           /\ FileExists(file_path[c])
           /\ Contents(file_path[c]) = Call(c).data
           /\ FileExists(file_path[d])
           /\ Contents(file_path[d]) = Call(d).data

\* The directories that are direct children of the storage root.
SenderDirs == {d \in dirs : Len(d) = Len(StorageRoot) + 1 /\ Parent(d) = StorageRoot}

\* The sender identifiers persist_dataset has been called with.
Senders ==
    UNION {{persisted[c][k].sender : k \in 1..Len(persisted[c])} : c \in Conns}

\* The directory of the sender of c is there.
SenderDirExists(c) == Append(StorageRoot, calling_aet[c]) \in dirs

\* C12: persist_dataset calls with the same path-safe sender identifier,
\* one after another or at once, use one directory: the directories under
\* the storage root are the directories named by the senders (one each); a
\* call that finds its directory there can still pass create_dir_all; and a
\* call that is past create_dir_all has its directory, so that every file is
\* in a directory that exists.
SubdirectoryReuse ==
    /\ SenderDirs \subseteq {Append(StorageRoot, s) : s \in Senders}
    /\ \A c \in Conns :
           /\ pc[c] \in {"new_in", "write"} => SenderDirExists(c)
           /\ (pc[c] = "create_dir_all" /\ SenderDirExists(c))
                  => ENABLED CreateDir(c, TRUE)
           /\ \A k \in 1..Len(persisted[c]) :
                  persisted[c][k].result.st = "ok"
                      => Append(StorageRoot, persisted[c][k].sender) \in dirs
    /\ \A p \in DOMAIN files : Parent(p) \in dirs

\* A call for sender A starts create_dir_all while another call for sender A
\* is writing its file into the directory.
SubdirectoryReuseWitness ==
    \E c \in Conns : \E d \in Conns \ {c} :
        /\ pc[c] = "create_dir_all" /\ pc[d] = "write"
        /\ calling_aet[c] = "A" /\ calling_aet[d] = "A"
        /\ SenderDirs = {Append(StorageRoot, "A")}

\* The step the handler of d takes next can be taken.
CanStep(d) ==
    /\ (pc[d] = "idle" /\ conn[d] = "Receiving" /\ Delivered < MaxShared)
           => ENABLED (\E value \in Fragments : Deliver(d, value, MaxShared))
    /\ pc[d] = "create_dir_all" => ENABLED CreateDir(d, TRUE)
    /\ pc[d] = "new_in" => ENABLED (\E name \in TempNames : NewIn(d, name, TRUE))
    /\ pc[d] = "write" => ENABLED (Write(d) \/ PersistOk(d))
    /\ pc[d] = "send" => ENABLED Send(d)
    /\ pc[d] = "post" => ENABLED Post(d)
    /\ pc[d] = "await" => ENABLED (\E r \in Responses : Respond(d, r))
    /\ pc[d] = "sent" => ENABLED Return(d)

\* C13: while the handler of one association is suspended in its forward
\* (or in its persist), the handler of another association can start and
\* take every step of its own persist and forward: none of its steps waits
\* for the suspended one.
NoBlocking ==
    \A c \in Conns : \A d \in Conns \ {c} : pc[c] \in Suspended => CanStep(d)

\* The request of c1 is still unanswered while c2 has received a fragment,
\* persisted it, forwarded it and returned.
NoBlockingWitness ==
    /\ pc["c1"] = "await" /\ Len(requests["c1"]) = 1
    /\ pc["c2"] = "idle" /\ Len(arrived["c2"]) = 1
    /\ Len(requests["c2"]) = 1 /\ Len(forwarded["c2"]) = 1

\* The values of NOCTIS_DICOM_PORT, among PortVars, that denote a port.
ValidPort(v) == ~v.set \/ v.val = "104"

\* Nothing has been accepted, persisted or forwarded.
NothingIngested ==
    /\ files = << >>
    /\ \A c \in Conns :
           /\ conn[c] = "Negotiating" /\ pc[c] = "idle"
           /\ arrived[c] = <<>> /\ persisted[c] = <<>>
           /\ forwarded[c] = <<>> /\ requests[c] = <<>>

\* A fragment of c has been handed to the handler.
Ingesting(c) == arrived[c] # <<>> \/ pc[c] # "idle"

\* C14: startup fails exactly when the port value is not a port, the storage
\* root cannot be created or the bind fails; a failed startup ends the
\* process (no step follows it) with nothing accepted, persisted or
\* forwarded; and whenever a fragment is handled the process is running and
\* the storage root has been created.
StartupFatal ==
    /\ [](proc # "running" => NothingIngested)
    /\ [](\A c \in Conns :
              (Ingesting(c) \/ conn[c] # "Negotiating")
                  => proc = "running" /\ Resolve(StorageRoot) \in dirs)
    /\ [][/\ proc # "failed"
          /\ \A v \in PortVars, rootOk \in BOOLEAN, bindOk \in BOOLEAN :
                 Startup(v, rootOk, bindOk)
                     => (proc' = "failed" <=> (~ValidPort(v) \/ ~rootOk \/ ~bindOk))]_vars

\* The bind failed after the storage root was created: the process has ended
\* and nothing was accepted.
StartupFatalWitness ==
    proc = "failed" /\ Resolve(StorageRoot) \in dirs /\ NothingIngested

\* The step in which the persist_dataset call of c ends with Err reports
\* dirKind when it fails in create_dir_all and writeKind when it fails in
\* NamedTempFile::new_in or in the write; the step leaves no file of the call
\* (and creates none), and the handler returns with its locals dropped.
FailsAs(c, dirKind, writeKind) ==
    PersistFails(c) =>
        /\ pc[c] \in {"create_dir_all", "new_in", "write"}
        /\ pc[c] = "create_dir_all" =>
               persisted'[c][Len(persisted[c])].result.error = dirKind
        /\ pc[c] \in {"new_in", "write"} =>
               persisted'[c][Len(persisted[c])].result.error = writeKind
        /\ DOMAIN files' \subseteq DOMAIN files
        /\ temp[c] # NoPath => Resolve(temp[c]) \notin DOMAIN files'
        /\ HandlerReturned(c)
        /\ forwarded' = forwarded /\ requests' = requests

\* No fragment is handed to persist_dataset twice.
PersistedOnce ==
    \A c \in Conns : \A j, k \in 1..Len(persisted[c]) :
        persisted[c][j].frag = persisted[c][k].frag => j = k

\* Between two calls the handler holds nothing.
NothingRetained ==
    \A c \in Conns :
        pc[c] = "idle" =>
            /\ calling_aet[c] = NoString /\ remote_host[c] = ""
            /\ study_dir[c] = NoPath /\ temp[c] = NoPath /\ file_path[c] = NoPath

PathsDistinct ==
    /\ \A c, d \in Conns :
           \A j \in 1..Len(persisted[c]) : \A k \in 1..Len(persisted[d]) :
               (/\ persisted[c][j].result.st = "ok"
                /\ persisted[d][k].result.st = "ok"
                /\ persisted[c][j].result.path = persisted[d][k].result.path)
               => (c = d /\ j = k)
    /\ \A c, d \in Conns :
           \A j \in 1..Len(requests[c]) : \A k \in 1..Len(requests[d]) :
               requests[c][j].body.file_path = requests[d][k].body.file_path
                   => (c = d /\ j = k)

\* The handler of c is inside persist_dataset / inside send.
InPersist(c) == pc[c] \in {"create_dir_all", "new_in", "write"}
InForward(c) == pc[c] \in {"post", "await"}

\* C17: within one association at most one persist_dataset or send call is
\* in progress, and it is the last one made: a persist call is unfinished
\* only while the handler is in it, a send call is unfinished only while the
\* handler is in it (or after the association closed and the call was
\* given up); and while the persist of a fragment runs, every earlier
\* fragment is finished: its persist failed, or its send has returned.
Sequential ==
    \A c \in Conns :
        /\ \A k \in 1..Len(persisted[c]) :
               persisted[c][k].result.st = "pending"
                   => k = Len(persisted[c]) /\ InPersist(c)
        /\ \A k \in 1..Len(forwarded[c]) :
               ~forwarded[c][k].done
                   => /\ k = Len(forwarded[c])
                      /\ \/ pc[c] \in {"post", "await"}
                         \/ conn[c] = "Closed" /\ pc[c] = "idle"
        /\ InPersist(c) =>
               /\ Call(c).result.st = "pending"
               /\ Len(forwarded[c]) = Len(Succeeded(persisted[c], 1))
               /\ Len(requests[c]) = Len(forwarded[c])
        /\ InForward(c) => ~Sending(c).done /\ Sending(c).frag = Call(c).frag

\* The persist of the second fragment has begun, after the send of the
\* first has returned.
SequentialWitness ==
    /\ pc["c1"] = "create_dir_all"
    /\ Len(persisted["c1"]) = 2
    /\ persisted["c1"][1].result.st = "ok"
    /\ Len(forwarded["c1"]) = 1 /\ forwarded["c1"][1].done

\* The order of the states of an association.
Rank(state) ==
    CASE state = "Negotiating" -> 0 [] state = "Receiving" -> 1 [] state = "Closed" -> 2

\* The step in which the handler of c calls persist_dataset / send.
PersistStarts(c) == Len(persisted'[c]) > Len(persisted[c])
ForwardStarts(c) == Len(forwarded'[c]) > Len(forwarded[c])

\* Every file belongs to a persist_dataset call that is writing it.
NoLeftover ==
    \A p \in DOMAIN files :
        \E c \in Conns : pc[c] = "write" /\ Resolve(temp[c]) = p

\* C18: the state of an association never moves backwards; persist_dataset
\* and send are called only while the association is in Receiving, so none
\* is started once the transport has reported its end; and a persist call
\* given up at the end of the association leaves no file.
ConnectionLifecycle ==
    /\ [][\A c \in Conns : Rank(conn'[c]) >= Rank(conn[c])]_vars
    /\ [][\A c \in Conns :
              (PersistStarts(c) \/ ForwardStarts(c)) => conn[c] = "Receiving"]_vars
    /\ [](\A c \in Conns :
              (conn[c] = "Closed" /\ pc[c] = "idle") => NoLeftover)

====
